---- MODULE Spec2Model ----
(***************************************************************************)
(* Taper: the Three.js training-corpus generator (train_3d_ai.py) and the  *)
(* prompt gateway (server.py).                                             *)
(*                                                                         *)
(* Text.  A Python string is a sequence of tokens whose concatenation is   *)
(* the string: identifiers, numbers, single punctuation characters and     *)
(* maximal whitespace runs.  A value spliced into an f-string from a table *)
(* (geometry kind, parameter string, colour literal) is one token.  The    *)
(* six patterns of validate_generated_code are made of whole identifiers,  *)
(* "=", "." and whitespace classes, except that THREE\.Mesh ends inside    *)
(* the class name that follows it, so a class name that starts with Mesh   *)
(* is lexed as "Mesh" and its remainder.  With this lexing re.search on    *)
(* characters and the token search below agree on every text built here.   *)
(* Prompts are never searched and are kept as plain strings.               *)
(***************************************************************************)
EXTENDS Integers, Sequences, FiniteSets, TLC

VARIABLES
    \* train_3d_ai.py, main() and ThreeJSTrainer.generate_training_examples
    pc, shape_i, color_i, obj_i, examples, training_data, check_i, valid_count,
    tune_i, fine_tune_data, corpus_file, dataset_file, run, previous,
    \* calls of generate_code_template and of the complex-objects loop body
    args, template_code, advanced_code,
    \* one call of validate_generated_code
    vparts, vcode, vpc, vresult,
    \* server.py, one TapeServerHandler per request
    api_key, hpc, request, model, prompt, response, upstream, calls,
    headers_buffer, wfile, served

corpusVars == <<pc, shape_i, color_i, obj_i, examples, training_data, check_i,
                valid_count, tune_i, fine_tune_data, corpus_file, dataset_file,
                run, previous>>
synthVars == <<args, template_code, advanced_code>>
validateVars == <<vparts, vcode, vpc, vresult>>
gatewayVars == <<api_key, hpc, request, model, prompt, response, upstream, calls,
                 headers_buffer, wfile, served>>
vars == <<corpusVars, synthVars, validateVars, gatewayVars>>

-----------------------------------------------------------------------------
(* Bounds of the model. *)

\* How many times the corpus script is run one after the other.
MaxRuns == 2
\* How many requests the gateway serves.
MaxRequests == 2

-----------------------------------------------------------------------------
(* Python helpers. *)

\* dict.get(key, default)
Get(d, key, default) == IF key \in DOMAIN d THEN d[key] ELSE default

\* needle in haystack, both token sequences
Contains(haystack, needle) ==
    \E s \in 0..(Len(haystack) - Len(needle)) :
        \A k \in 1..Len(needle) : haystack[s + k] = needle[k]

-----------------------------------------------------------------------------
(* ThreeJSTrainer.__init__: the descriptor tables.  A dict is its mapping  *)
(* and its keys in insertion order, the order items() iterates in.         *)

geometries ==
    [sphere |-> "SphereGeometry", cube |-> "BoxGeometry",
     cylinder |-> "CylinderGeometry", cone |-> "ConeGeometry",
     torus |-> "TorusGeometry", plane |-> "PlaneGeometry", ring |-> "RingGeometry",
     dodecahedron |-> "DodecahedronGeometry", icosahedron |-> "IcosahedronGeometry",
     octahedron |-> "OctahedronGeometry", tetrahedron |-> "TetrahedronGeometry"]

geometries_keys ==
    <<"sphere", "cube", "cylinder", "cone", "torus", "plane", "ring", "dodecahedron",
      "icosahedron", "octahedron", "tetrahedron">>

colors ==
    [red |-> "0xff0000", green |-> "0x00ff00", blue |-> "0x0000ff",
     yellow |-> "0xffff00", purple |-> "0x800080", orange |-> "0xffa500",
     pink |-> "0xffc0cb", cyan |-> "0x00ffff", gold |-> "0xffd700",
     silver |-> "0xc0c0c0"]

colors_keys ==
    <<"red", "green", "blue", "yellow", "purple", "orange", "pink", "cyan", "gold",
      "silver">>

-----------------------------------------------------------------------------
(* ThreeJSTrainer.generate_code_template *)

template_params ==
    [SphereGeometry |-> "1.5, 32, 32", BoxGeometry |-> "2, 2, 2",
     CylinderGeometry |-> "1, 1, 3, 32", ConeGeometry |-> "1.5, 3, 8",
     TorusGeometry |-> "1.5, 0.5, 16, 100", PlaneGeometry |-> "3, 3",
     RingGeometry |-> "0.5, 1.5, 32", DodecahedronGeometry |-> "1.5",
     IcosahedronGeometry |-> "1.5", OctahedronGeometry |-> "1.5",
     TetrahedronGeometry |-> "1.5"]

animations ==
    [sphere |->
       <<"object", ".", "rotation", ".", "y", " ", "+", "=", " ", "0.02", ";", " ",
         "object", ".", "position", ".", "y", " ", "=", " ", "Math", ".", "sin", "(",
         "Date", ".", "now", "(", ")", " ", "*", " ", "0.001", ")", " ", "*", " ",
         "0.3", ";">>,
     cube |->
       <<"object", ".", "rotation", ".", "x", " ", "+", "=", " ", "0.01", ";", " ",
         "object", ".", "rotation", ".", "y", " ", "+", "=", " ", "0.01", ";", " ",
         "object", ".", "rotation", ".", "z", " ", "+", "=", " ", "0.005", ";">>,
     cylinder |->
       <<"object", ".", "rotation", ".", "y", " ", "+", "=", " ", "0.02", ";", " ",
         "object", ".", "position", ".", "y", " ", "=", " ", "Math", ".", "sin", "(",
         "Date", ".", "now", "(", ")", " ", "*", " ", "0.001", ")", " ", "*", " ",
         "0.2", ";">>,
     cone |->
       <<"object", ".", "rotation", ".", "y", " ", "+", "=", " ", "0.015", ";", " ",
         "object", ".", "position", ".", "y", " ", "=", " ", "Math", ".", "sin", "(",
         "Date", ".", "now", "(", ")", " ", "*", " ", "0.0015", ")", " ", "*", " ",
         "0.4", ";">>,
     torus |->
       <<"object", ".", "rotation", ".", "x", " ", "+", "=", " ", "0.01", ";", " ",
         "object", ".", "rotation", ".", "y", " ", "+", "=", " ", "0.02", ";">>]

\* the second argument of animations.get(shape, ...)
template_default_animation ==
    <<"object", ".", "rotation", ".", "x", " ", "+", "=", " ", "0.01", ";", " ",
      "object", ".", "rotation", ".", "y", " ", "+", "=", " ", "0.01", ";">>

\* params.get(geometry, '1, 1, 1')
template_param(geometry) == Get(template_params, geometry, "1, 1, 1")

generate_code_template(shape, geometry, color, color_name) ==
    LET param == template_param(geometry)
        animation == Get(animations, shape, template_default_animation)
    IN  <<"const", " ", "geometry", " ", "=", " ", "new", " ", "THREE", ".", geometry,
          "(", param, ")", ";", "\n", "const", " ", "material", " ", "=", " ", "new",
          " ", "THREE", ".", "Mesh", "StandardMaterial", "(", "{", " \n    ", "color",
          ":", " ", color, ",", " \n    ", "metalness", ":", " ", "0.3", ",",
          " \n    ", "roughness", ":", " ", "0.4", " \n", "}", ")", ";", "\n", "const",
          " ", "object", " ", "=", " ", "new", " ", "THREE", ".", "Mesh", "(",
          "geometry", ",", " ", "material", ")", ";", "\n", "object", ".",
          "castShadow", " ", "=", " ", "true", ";", "\n", "object", ".",
          "receiveShadow", " ", "=", " ", "true", ";", "\n", "object", ".", "userData",
          ".", "animate", " ", "=", " ", "(", ")", " ", "=", ">", " ", "{", " \n    ">>
        \o animation
        \o <<"\n", "}", ";">>

-----------------------------------------------------------------------------
(* ThreeJSTrainer.generate_advanced_code *)

advanced_params ==
    [SphereGeometry |-> "1.5, 32, 32", BoxGeometry |-> "2, 2, 2",
     CylinderGeometry |-> "1, 1, 3, 32", ConeGeometry |-> "1.5, 3, 8",
     TorusGeometry |-> "1.5, 0.5, 16, 100", OctahedronGeometry |-> "1.5"]

\* params.get(geometry, '1, 1, 1')
advanced_param(geometry) == Get(advanced_params, geometry, "1, 1, 1")

\* The tags the if / elif chain tests, in the order it tests them.
effect_tags ==
    <<"metallic", "emissive", "floating", "pulsing", "rainbow", "glass", "wood",
      "crystal", "plasma">>

\* the else branch with another metalness
default_material_half_metal(color) ==
    <<"new", " ", "THREE", ".", "Mesh", "StandardMaterial", "(", "{", " ", "color",
      ":", " ", color, ",", " ", "metalness", ":", " ", "0.5", ",", " ", "roughness",
      ":", " ", "0.4", " ", "}", ")">>

\* The else branch.
default_material(color) ==
    <<"new", " ", "THREE", ".", "Mesh", "StandardMaterial", "(", "{", " ", "color",
      ":", " ", color, ",", " ", "metalness", ":", " ", "0.3", ",", " ", "roughness",
      ":", " ", "0.4", " ", "}", ")">>

default_animation ==
    <<"object", ".", "rotation", ".", "x", " ", "+", "=", " ", "0.01", ";", " ",
      "object", ".", "rotation", ".", "y", " ", "+", "=", " ", "0.01", ";">>

\* the chain's material overwritten by the else branch's, whatever the effect
effect_material_overwritten(color, effect) == default_material(color)

\* The material the chain assigns for `effect`.
effect_material(color, effect) ==
    IF effect = "metallic" THEN
        <<"new", " ", "THREE", ".", "Mesh", "StandardMaterial", "(", "{", " ", "color",
          ":", " ", color, ",", " ", "metalness", ":", " ", "0.9", ",", " ",
          "roughness", ":", " ", "0.1", " ", "}", ")">>
    ELSE IF effect = "emissive" THEN
        <<"new", " ", "THREE", ".", "Mesh", "StandardMaterial", "(", "{", " ", "color",
          ":", " ", color, ",", " ", "emissive", ":", " ", color, ",", " ",
          "emissiveIntensity", ":", " ", "0.3", " ", "}", ")">>
    ELSE IF effect = "floating" THEN
        <<"new", " ", "THREE", ".", "Mesh", "StandardMaterial", "(", "{", " ", "color",
          ":", " ", color, ",", " ", "metalness", ":", " ", "0.2", ",", " ",
          "roughness", ":", " ", "0.8", " ", "}", ")">>
    ELSE IF effect = "pulsing" THEN
        <<"new", " ", "THREE", ".", "Mesh", "StandardMaterial", "(", "{", " ", "color",
          ":", " ", color, ",", " ", "metalness", ":", " ", "0.5", ",", " ",
          "roughness", ":", " ", "0.3", " ", "}", ")">>
    ELSE IF effect = "rainbow" THEN
        <<"new", " ", "THREE", ".", "Mesh", "StandardMaterial", "(", "{", " ", "color",
          ":", " ", color, ",", " ", "metalness", ":", " ", "0.3", ",", " ",
          "roughness", ":", " ", "0.4", " ", "}", ")">>
    ELSE IF effect = "glass" THEN
        <<"new", " ", "THREE", ".", "Mesh", "PhysicalMaterial", "(", "{", " ", "color",
          ":", " ", color, ",", " ", "transmission", ":", " ", "0.9", ",", " ",
          "opacity", ":", " ", "0.1", ",", " ", "transparent", ":", " ", "true", ",",
          " ", "roughness", ":", " ", "0.0", ",", " ", "metalness", ":", " ", "0.0",
          " ", "}", ")">>
    ELSE IF effect = "wood" THEN
        <<"new", " ", "THREE", ".", "Mesh", "StandardMaterial", "(", "{", " ", "color",
          ":", " ", color, ",", " ", "metalness", ":", " ", "0.0", ",", " ",
          "roughness", ":", " ", "0.9", " ", "}", ")">>
    ELSE IF effect = "crystal" THEN
        <<"new", " ", "THREE", ".", "Mesh", "PhysicalMaterial", "(", "{", " ", "color",
          ":", " ", color, ",", " ", "transmission", ":", " ", "0.7", ",", " ",
          "opacity", ":", " ", "0.3", ",", " ", "transparent", ":", " ", "true", ",",
          " ", "roughness", ":", " ", "0.0", ",", " ", "metalness", ":", " ", "0.1",
          ",", " ", "clearcoat", ":", " ", "1.0", " ", "}", ")">>
    ELSE IF effect = "plasma" THEN
        <<"new", " ", "THREE", ".", "Mesh", "StandardMaterial", "(", "{", " ", "color",
          ":", " ", color, ",", " ", "emissive", ":", " ", color, ",", " ",
          "emissiveIntensity", ":", " ", "0.5", " ", "}", ")">>
    ELSE default_material(color)

\* The animation the chain assigns for `effect`.
effect_animation(effect) ==
    IF effect = "metallic" THEN
        <<"object", ".", "rotation", ".", "y", " ", "+", "=", " ", "0.02", ";", " ",
          "object", ".", "material", ".", "metalness", " ", "=", " ", "0.9", " ", "+",
          " ", "Math", ".", "sin", "(", "Date", ".", "now", "(", ")", " ", "*", " ",
          "0.002", ")", " ", "*", " ", "0.1", ";">>
    ELSE IF effect = "emissive" THEN
        <<"object", ".", "rotation", ".", "x", " ", "+", "=", " ", "0.01", ";", " ",
          "object", ".", "rotation", ".", "y", " ", "+", "=", " ", "0.01", ";", " ",
          "object", ".", "material", ".", "emissiveIntensity", " ", "=", " ", "0.3",
          " ", "+", " ", "Math", ".", "sin", "(", "Date", ".", "now", "(", ")", " ",
          "*", " ", "0.003", ")", " ", "*", " ", "0.2", ";">>
    ELSE IF effect = "floating" THEN
        <<"object", ".", "rotation", ".", "y", " ", "+", "=", " ", "0.01", ";", " ",
          "object", ".", "position", ".", "y", " ", "=", " ", "Math", ".", "sin", "(",
          "Date", ".", "now", "(", ")", " ", "*", " ", "0.001", ")", " ", "*", " ",
          "1.5", ";">>
    ELSE IF effect = "pulsing" THEN
        <<"object", ".", "rotation", ".", "x", " ", "+", "=", " ", "0.005", ";", " ",
          "object", ".", "rotation", ".", "y", " ", "+", "=", " ", "0.01", ";", " ",
          "object", ".", "scale", ".", "setScalar", "(", "1", " ", "+", " ", "Math",
          ".", "sin", "(", "Date", ".", "now", "(", ")", " ", "*", " ", "0.003", ")",
          " ", "*", " ", "0.3", ")", ";">>
    ELSE IF effect = "rainbow" THEN
        <<"object", ".", "rotation", ".", "y", " ", "+", "=", " ", "0.02", ";", " ",
          "const", " ", "time", " ", "=", " ", "Date", ".", "now", "(", ")", " ", "*",
          " ", "0.001", ";", " ", "object", ".", "material", ".", "color", ".",
          "setHSL", "(", "(", "time", " ", "*", " ", "0.2", ")", " ", "%", " ", "1",
          ",", " ", "0.8", ",", " ", "0.5", ")", ";">>
    ELSE IF effect = "glass" THEN
        <<"object", ".", "rotation", ".", "x", " ", "+", "=", " ", "0.005", ";", " ",
          "object", ".", "rotation", ".", "y", " ", "+", "=", " ", "0.01", ";", " ",
          "object", ".", "position", ".", "y", " ", "=", " ", "Math", ".", "sin", "(",
          "Date", ".", "now", "(", ")", " ", "*", " ", "0.001", ")", " ", "*", " ",
          "0.2", ";">>
    ELSE IF effect = "wood" THEN
        <<"object", ".", "rotation", ".", "y", " ", "+", "=", " ", "0.01", ";">>
    ELSE IF effect = "crystal" THEN
        <<"object", ".", "rotation", ".", "x", " ", "+", "=", " ", "0.01", ";", " ",
          "object", ".", "rotation", ".", "y", " ", "+", "=", " ", "0.015", ";", " ",
          "object", ".", "rotation", ".", "z", " ", "+", "=", " ", "0.005", ";">>
    ELSE IF effect = "plasma" THEN
        <<"object", ".", "rotation", ".", "y", " ", "+", "=", " ", "0.03", ";", " ",
          "const", " ", "time", " ", "=", " ", "Date", ".", "now", "(", ")", " ", "*",
          " ", "0.001", ";", " ", "object", ".", "material", ".", "emissiveIntensity",
          " ", "=", " ", "0.5", " ", "+", " ", "Math", ".", "sin", "(", "time", " ",
          "*", " ", "2", ")", " ", "*", " ", "0.3", ";", " ", "object", ".",
          "material", ".", "color", ".", "setHSL", "(", "(", "time", " ", "*", " ",
          "0.5", ")", " ", "%", " ", "1", ",", " ", "1", ",", " ", "0.5", ")", ";">>
    ELSE default_animation

\* the fragment with the mesh bound to `mesh` instead of `object`
generate_advanced_code_mesh(shape, geometry, color, effect) ==
    LET param == advanced_param(geometry)
        material == effect_material(color, effect)
        animation == effect_animation(effect)
    IN  <<"const", " ", "geometry", " ", "=", " ", "new", " ", "THREE", ".", geometry,
          "(", param, ")", ";", "\n", "const", " ", "material", " ", "=", " ">>
        \o material
        \o <<";", "\n", "const", " ", "mesh", " ", "=", " ", "new", " ", "THREE", ".",
             "Mesh", "(", "geometry", ",", " ", "material", ")", ";", "\n", "mesh", ".",
             "castShadow", " ", "=", " ", "true", ";", "\n", "mesh", ".", "receiveShadow",
             " ", "=", " ", "true", ";", "\n", "mesh", ".", "userData", ".", "animate",
             " ", "=", " ", "(", ")", " ", "=", ">", " ", "{", " \n    ">>
        \o animation
        \o <<"\n", "}", ";">>

generate_advanced_code(shape, geometry, color, effect) ==
    LET param == advanced_param(geometry)
        material == effect_material(color, effect)
        animation == effect_animation(effect)
    IN  <<"const", " ", "geometry", " ", "=", " ", "new", " ", "THREE", ".", geometry,
          "(", param, ")", ";", "\n", "const", " ", "material", " ", "=", " ">>
        \o material
        \o <<";", "\n", "const", " ", "object", " ", "=", " ", "new", " ", "THREE", ".",
             "Mesh", "(", "geometry", ",", " ", "material", ")", ";", "\n", "object", ".",
             "castShadow", " ", "=", " ", "true", ";", "\n", "object", ".",
             "receiveShadow", " ", "=", " ", "true", ";", "\n", "object", ".", "userData",
             ".", "animate", " ", "=", " ", "(", ")", " ", "=", ">", " ", "{", " \n    ">>
        \o animation
        \o <<"\n", "}", ";">>

-----------------------------------------------------------------------------
(* ThreeJSTrainer.validate_generated_code *)

\* The patterns, lexed: "\\s+" and "\\s*" are the whitespace classes, every
\* other atom is literal text.
required_patterns ==
    <<<<"const", "\\s+", "geometry", "\\s*", "=", "\\s*", "new", "\\s+", "THREE", ".">>,
      <<"const", "\\s+", "material", "\\s*", "=", "\\s*", "new", "\\s+", "THREE", ".">>,
      <<"const", "\\s+", "object", "\\s*", "=", "\\s*", "new", "\\s+", "THREE", ".",
        "Mesh">>,
      <<"object", ".", "castShadow", "\\s*", "=", "\\s*", "true">>,
      <<"object", ".", "receiveShadow", "\\s*", "=", "\\s*", "true">>,
      <<"object", ".", "userData", ".", "animate", "\\s*", "=">>>>

\* The tokens \s matches: the whitespace runs of the texts built here.
WhiteSpace == {" ", "\n", " \n", "\n    ", " \n    ", "  "}

\* re.match of pattern[i..] at token j of text
RECURSIVE MatchAt(_, _, _, _)
MatchAt(pattern, i, text, j) ==
    IF i > Len(pattern) THEN TRUE
    ELSE IF pattern[i] = "\\s+" THEN
        /\ j <= Len(text)
        /\ text[j] \in WhiteSpace
        /\ \/ MatchAt(pattern, i, text, j + 1)
           \/ MatchAt(pattern, i + 1, text, j + 1)
    ELSE IF pattern[i] = "\\s*" THEN
        \/ /\ j <= Len(text)
           /\ text[j] \in WhiteSpace
           /\ MatchAt(pattern, i, text, j + 1)
        \/ MatchAt(pattern, i + 1, text, j)
    ELSE
        /\ j <= Len(text)
        /\ text[j] = pattern[i]
        /\ MatchAt(pattern, i + 1, text, j + 1)

\* re.search(pattern, code) is not None
re_search(pattern, code) == \E j \in 1..(Len(code) + 1) : MatchAt(pattern, 1, code, j)

\* the loop with `return True` inside it: only the first pattern decides
validate_from_first(code, k) ==
    IF k > Len(required_patterns) THEN TRUE
    ELSE re_search(required_patterns[k], code)

\* for pattern in required_patterns[k..]: if not re.search: return False
RECURSIVE validate_from(_, _)
validate_from(code, k) ==
    IF k > Len(required_patterns) THEN TRUE
    ELSE IF ~re_search(required_patterns[k], code) THEN FALSE
    ELSE validate_from(code, k + 1)

validate_generated_code(code) == validate_from(code, 1)

-----------------------------------------------------------------------------
(* ThreeJSTrainer.generate_training_examples, save_training_data and main  *)

complex_objects ==
    <<<<"spinning golden sphere", "sphere", "0xffd700", "metallic">>,
      <<"glowing blue cube", "cube", "0x0000ff", "emissive">>,
      <<"floating red cylinder", "cylinder", "0xff0000", "floating">>,
      <<"pulsing green torus", "torus", "0x00ff00", "pulsing">>,
      <<"rotating rainbow cone", "cone", "0xff0000", "rainbow">>,
      <<"transparent glass sphere", "sphere", "0x88ccff", "glass">>,
      <<"metallic silver cube", "cube", "0xc0c0c0", "metallic">>,
      <<"wooden brown cylinder", "cylinder", "0x8b4513", "wood">>,
      <<"crystal clear diamond", "octahedron", "0xffffff", "crystal">>,
      <<"glowing plasma ball", "sphere", "0xff00ff", "plasma">>>>

\* f"Create a {shape} {color_name}": the two names swapped
basic_prompt_swapped(color_name, shape) == "Create a " \o shape \o " " \o color_name

\* f"Create a {color_name} {shape}"
basic_prompt(color_name, shape) == "Create a " \o color_name \o " " \o shape

\* the dict appended by the body of the basic-shapes loops
basic_example(shape, color_name) ==
    [prompt |-> basic_prompt(color_name, shape),
     code |-> generate_code_template(shape, geometries[shape], colors[color_name],
                                     color_name),
     category |-> "basic_shapes"]

\* self.geometries.get(shape, 'SphereGeometry')
advanced_geometry_sphere(shape) == Get(geometries, shape, "SphereGeometry")

\* self.geometries.get(shape, 'BoxGeometry')
advanced_geometry(shape) == Get(geometries, shape, "BoxGeometry")

\* the dict appended by the body of the complex-objects loop
advanced_example(object) ==
    [prompt |-> object[1],
     code |-> generate_advanced_code(object[2], advanced_geometry(object[2]),
                                     object[3], object[4]),
     category |-> "advanced_objects"]

system_content ==
    "You are an expert Three.js developer. Generate only clean JavaScript code without any markdown formatting, comments, or explanations."

\* the record with the assistant turn left empty
fine_tune_record_no_code(example) ==
    [messages |->
        <<[role |-> "system", content |-> system_content],
          [role |-> "user", content |-> "Create Three.js code for: " \o example.prompt],
          [role |-> "assistant", content |-> <<>>]>>]

\* the dict main() appends to fine_tune_data for one example
fine_tune_record(example) ==
    [messages |->
        <<[role |-> "system", content |-> system_content],
          [role |-> "user", content |-> "Create Three.js code for: " \o example.prompt],
          [role |-> "assistant", content |-> example.code]>>]

\* The state of a process that has not started main().
CorpusIdle ==
    /\ pc = "start"
    /\ shape_i = 1 /\ color_i = 1 /\ obj_i = 1
    /\ examples = <<>> /\ training_data = <<>>
    /\ check_i = 1 /\ valid_count = 0
    /\ tune_i = 1 /\ fine_tune_data = <<>>
    /\ corpus_file = 0 /\ dataset_file = 0
    /\ run = 1 /\ previous = <<>>

\* main() up to the call of generate_training_examples: examples = []
Start ==
    /\ pc = "start"
    /\ examples' = <<>>
    /\ shape_i' = 1 /\ color_i' = 1
    /\ pc' = "basic_shapes"
    /\ UNCHANGED <<obj_i, training_data, check_i, valid_count, tune_i, fine_tune_data,
                   corpus_file, dataset_file, run, previous>>

\* one pass of the inner loop over self.colors inside the loop over self.geometries
BasicShape ==
    /\ pc = "basic_shapes"
    /\ examples' = Append(examples, basic_example(geometries_keys[shape_i],
                                                  colors_keys[color_i]))
    /\ IF color_i < Len(colors_keys)
       THEN /\ color_i' = color_i + 1
            /\ UNCHANGED <<shape_i, pc, obj_i>>
       ELSE /\ color_i' = 1
            /\ shape_i' = shape_i + 1
            /\ IF shape_i < Len(geometries_keys)
               THEN UNCHANGED <<pc, obj_i>>
               ELSE pc' = "complex_objects" /\ obj_i' = 1
    /\ UNCHANGED <<training_data, check_i, valid_count, tune_i, fine_tune_data,
                   corpus_file, dataset_file, run, previous>>

\* one pass of the loop over complex_objects
ComplexObject ==
    /\ pc = "complex_objects"
    /\ examples' = Append(examples, advanced_example(complex_objects[obj_i]))
    /\ obj_i' = obj_i + 1
    /\ pc' = IF obj_i < Len(complex_objects) THEN pc ELSE "save"
    /\ UNCHANGED <<shape_i, color_i, training_data, check_i, valid_count, tune_i,
                   fine_tune_data, corpus_file, dataset_file, run, previous>>

\* return examples; json.dump(examples, f); training_data = the returned list.
\* The local list is gone once it is returned; the file is kept as the number
\* of examples dumped into it.
SaveTrainingData ==
    /\ pc = "save"
    /\ corpus_file' = Len(examples)
    /\ training_data' = examples
    /\ examples' = <<>>
    /\ check_i' = 1 /\ valid_count' = 0
    /\ pc' = "validate"
    /\ UNCHANGED <<shape_i, color_i, obj_i, tune_i, fine_tune_data, dataset_file, run,
                   previous>>

\* one pass of: for example in training_data[:10]
ValidateExample ==
    /\ pc = "validate"
    /\ IF check_i <= 10 /\ check_i <= Len(training_data)
       THEN /\ valid_count' =
                 IF validate_generated_code(training_data[check_i].code)
                 THEN valid_count + 1 ELSE valid_count
            /\ check_i' = check_i + 1
            /\ UNCHANGED <<pc, tune_i, fine_tune_data>>
       ELSE /\ pc' = "fine_tune"
            /\ tune_i' = 1 /\ fine_tune_data' = <<>>
            /\ UNCHANGED <<check_i, valid_count>>
    /\ UNCHANGED <<shape_i, color_i, obj_i, examples, training_data, corpus_file,
                   dataset_file, run, previous>>

\* one pass of: for example in training_data: fine_tune_data.append(...)
FineTune ==
    /\ pc = "fine_tune"
    /\ IF tune_i <= Len(training_data)
       THEN /\ fine_tune_data' =
                 Append(fine_tune_data, fine_tune_record(training_data[tune_i]))
            /\ tune_i' = tune_i + 1
            /\ UNCHANGED pc
       ELSE /\ pc' = "write"
            /\ UNCHANGED <<tune_i, fine_tune_data>>
    /\ UNCHANGED <<shape_i, color_i, obj_i, examples, training_data, check_i,
                   valid_count, corpus_file, dataset_file, run, previous>>

\* for item in fine_tune_data: f.write(json.dumps(item) + '\n').  The file is
\* kept as the number of lines written to it.
WriteDataset ==
    /\ pc = "write"
    /\ dataset_file' = Len(fine_tune_data)
    /\ pc' = "done"
    /\ UNCHANGED <<shape_i, color_i, obj_i, examples, training_data, check_i,
                   valid_count, tune_i, fine_tune_data, corpus_file, run, previous>>

\* The script is started again: a fresh process, the files stay on disk and
\* the corpus of the run before is kept aside for comparison.
RunAgain ==
    /\ pc = "done"
    /\ run < MaxRuns
    /\ run' = run + 1
    /\ previous' = training_data
    /\ pc' = "start"
    /\ shape_i' = 1 /\ color_i' = 1 /\ obj_i' = 1
    /\ examples' = <<>> /\ training_data' = <<>>
    /\ check_i' = 1 /\ valid_count' = 0
    /\ tune_i' = 1 /\ fine_tune_data' = <<>>
    /\ UNCHANGED <<corpus_file, dataset_file>>

-----------------------------------------------------------------------------
(* The synthesizer called on arguments of any kind: generate_code_template *)
(* directly, and the body of the complex-objects loop (the geometry lookup *)
(* followed by generate_advanced_code) on any (shape, color, effect).      *)

ShapeKeys == {geometries_keys[k] : k \in 1..Len(geometries_keys)}
GeometryKinds == {geometries[s] : s \in ShapeKeys}
EffectTags == {effect_tags[k] : k \in 1..Len(effect_tags)}

\* Argument values outside the tables.
UnknownShapes == {"pyramid", "teapot"}
UnknownKinds == {"CapsuleGeometry"}
UnknownEffects == {"wireframe", ""}

ShapeArgs == ShapeKeys \cup UnknownShapes
GeometryArgs == GeometryKinds \cup UnknownKinds
ColorArgs == {colors[c] : c \in DOMAIN colors}
EffectArgs == EffectTags \cup UnknownEffects

NotCalled == <<>>

SynthIdle ==
    /\ args = [shape |-> "sphere", geometry |-> "SphereGeometry", color |-> "0xff0000",
               effect |-> "metallic"]
    /\ template_code = NotCalled
    /\ advanced_code = NotCalled

SynthInit ==
    /\ args \in [shape : ShapeArgs, geometry : GeometryArgs, color : ColorArgs,
                 effect : EffectArgs]
    /\ template_code = NotCalled
    /\ advanced_code = NotCalled

\* generate_code_template(shape, geometry, color, color_name)
CallTemplate ==
    /\ template_code = NotCalled
    /\ template_code' =
           generate_code_template(args.shape, args.geometry, args.color, "any")
    /\ UNCHANGED <<args, advanced_code>>

\* geometry = self.geometries.get(shape, 'BoxGeometry')
\* code = self.generate_advanced_code(shape, geometry, color, effect)
CallAdvanced ==
    /\ advanced_code = NotCalled
    /\ advanced_code' =
           advanced_example(<<"any", args.shape, args.color, args.effect>>).code
    /\ UNCHANGED <<args, template_code>>

(* Reading a generated fragment back. *)

\* the offset of the first occurrence of needle in text
Find(text, needle) ==
    CHOOSE s \in 0..(Len(text) - Len(needle)) :
        /\ \A k \in 1..Len(needle) : text[s + k] = needle[k]
        /\ \A t \in 0..(s - 1) : \E k \in 1..Len(needle) : text[t + k] # needle[k]

\* X and P in: const geometry = new THREE.X(P);
GeometryOf(code) == code[Find(code, <<"THREE", ".">>) + 3]
ParamOf(code) == code[Find(code, <<"THREE", ".">>) + 5]

\* E in: const material = E;\nconst object
MaterialOf(code) ==
    SubSeq(code, Find(code, <<"const", " ", "material", " ", "=", " ">>) + 7,
           Find(code, <<";", "\n", "const", " ", "object">>))

\* B in: object.userData.animate = () => { \n    B\n};
AnimationOf(code) ==
    SubSeq(code, Find(code, <<"animate", " ", "=", " ", "(", ")", " ", "=", ">", " ",
                              "{", " \n    ">>) + 13,
           Len(code) - 3)

\* the value of a numeric literal of the material recipes, in tenths
Tenths ==
    [k \in {"0.0", "0.1", "0.2", "0.3", "0.4", "0.5", "0.7", "0.8", "0.9", "1.0"} |->
        CASE k = "0.0" -> 0 [] k = "0.1" -> 1 [] k = "0.2" -> 2 [] k = "0.3" -> 3
          [] k = "0.4" -> 4 [] k = "0.5" -> 5 [] k = "0.7" -> 7 [] k = "0.8" -> 8
          [] k = "0.9" -> 9 [] k = "1.0" -> 10]

\* the literal after `name: ` in a material expression
Property(material, name) == material[Find(material, <<name, ":", " ">>) + 4]
HasProperty(material, name) == Contains(material, <<name, ":", " ">>)

-----------------------------------------------------------------------------
(* validate_generated_code called on fragments put together from the six   *)
(* structural elements, each one as the assembler writes it ("canon"),     *)
(* with no optional whitespace ("tight"), replaced by a statement that is  *)
(* not the element ("near"), or left out ("absent").                       *)

Variants == {"canon", "tight", "near", "absent"}
Presents == {"canon", "tight"}

element ==
    <<[canon |-> <<"const", " ", "geometry", " ", "=", " ", "new", " ", "THREE", ".",
                   "BoxGeometry", "(", "2", ",", " ", "2", ",", " ", "2", ")", ";",
                   "\n">>,
       tight |-> <<"const", " ", "geometry", "=", "new", " ", "THREE", ".",
                   "BoxGeometry", "(", "2", ",", " ", "2", ",", " ", "2", ")", ";",
                   "\n">>,
       near |-> <<"const", " ", "geometry", " ", "=", " ", "THREE", ".", "BoxGeometry",
                  "(", "2", ",", " ", "2", ",", " ", "2", ")", ";", "\n">>,
       absent |-> <<>>],
      [canon |-> <<"const", " ", "material", " ", "=", " ", "new", " ", "THREE", ".",
                   "Mesh", "StandardMaterial", "(", "{", " ", "color", ":", " ",
                   "0xff0000", ",", " ", "metalness", ":", " ", "0.3", ",", " ",
                   "roughness", ":", " ", "0.4", " ", "}", ")", ";", "\n">>,
       tight |-> <<"const", " ", "material", "=", "new", " ", "THREE", ".", "Mesh",
                   "StandardMaterial", "(", "{", "color", ":", "0xff0000", "}", ")",
                   ";", "\n">>,
       near |-> <<"const", " ", "material", " ", "=", " ", "sharedMaterial", ";", "\n">>,
       absent |-> <<>>],
      [canon |-> <<"const", " ", "object", " ", "=", " ", "new", " ", "THREE", ".",
                   "Mesh", "(", "geometry", ",", " ", "material", ")", ";", "\n">>,
       tight |-> <<"const", " ", "object", "=", "new", " ", "THREE", ".", "Mesh", "(",
                   "geometry", ",", "material", ")", ";", "\n">>,
       near |-> <<"const", " ", "mesh", " ", "=", " ", "new", " ", "THREE", ".",
                  "Mesh", "(", "geometry", ",", " ", "material", ")", ";", "\n">>,
       absent |-> <<>>],
      [canon |-> <<"object", ".", "castShadow", " ", "=", " ", "true", ";", "\n">>,
       tight |-> <<"object", ".", "castShadow", "=", "true", ";", "\n">>,
       near |-> <<"object", ".", "castShadow", " ", "=", " ", "false", ";", "\n">>,
       absent |-> <<>>],
      [canon |-> <<"object", ".", "receiveShadow", " ", "=", " ", "true", ";", "\n">>,
       tight |-> <<"object", ".", "receiveShadow", "=", "true", ";", "\n">>,
       near |-> <<"object", ".", "receiveShadow", " ", "=", " ", "false", ";", "\n">>,
       absent |-> <<>>],
      [canon |-> <<"object", ".", "userData", ".", "animate", " ", "=", " ", "(", ")",
                   " ", "=", ">", " ", "{", " \n    ", "object", ".", "rotation", ".",
                   "x", " ", "+", "=", " ", "0.01", ";", " ", "object", ".",
                   "rotation", ".", "y", " ", "+", "=", " ", "0.01", ";", "\n", "}",
                   ";">>,
       tight |-> <<"object", ".", "userData", ".", "animate", "=", "(", ")", "=", ">",
                   "{", "object", ".", "rotation", ".", "y", "+", "=", "0.01", ";",
                   "}", ";">>,
       near |-> <<"object", ".", "userData", ".", "update", " ", "=", " ", "(", ")",
                  " ", "=", ">", " ", "{", " \n    ", "object", ".", "rotation", ".",
                  "y", " ", "+", "=", " ", "0.01", ";", "\n", "}", ";">>,
       absent |-> <<>>]>>

RECURSIVE Fragment(_, _)
Fragment(parts, k) ==
    IF k > Len(element) THEN <<>> ELSE element[k][parts[k]] \o Fragment(parts, k + 1)

ValidateIdle ==
    /\ vparts = [k \in 1..Len(element) |-> "canon"]
    /\ vcode = <<>>
    /\ vpc = "call"
    /\ vresult = FALSE

ValidateInit ==
    /\ vparts \in [1..Len(element) -> Variants]
    /\ vcode = Fragment(vparts, 1)
    /\ vpc = "call"
    /\ vresult = FALSE

\* trainer.validate_generated_code(code)
Validate ==
    /\ vpc = "call"
    /\ vresult' = validate_generated_code(vcode)
    /\ vpc' = "returned"
    /\ UNCHANGED <<vparts, vcode>>

-----------------------------------------------------------------------------
(* server.py: TapeServerHandler.  HTTPServer builds one handler for each   *)
(* request and serves the requests one after the other.  What the handler  *)
(* sends is kept as the writes made to wfile: a head (the status line and  *)
(* the headers, written when end_headers flushes the buffer) or a body.    *)

Paths == {"/api/generate", "/api/other"}
\* the Content-Length header: present and right, or missing
ContentLengths == {"ok", "missing"}
\* the request body: not JSON, a JSON array, {}, {"prompt": ""}, {"prompt": "a cat"}
Bodies == {"not_json", "array", "no_prompt", "empty_prompt", "prompt"}
Requests == [path : Paths, content_length : ContentLengths, body : Bodies]
\* What the collaborator does when called: generate_content raises; it returns a
\* response with text; it returns a response whose text accessor raises.
Upstreams == {"raises", "text", "no_text"}

NoRequest == [path |-> "", content_length |-> "", body |-> ""]

\* BaseHTTPRequestHandler.send_response: the status line, Server and Date
send_response(buffer, code) == buffer \o <<"HTTP/1.0 " \o code, "Server", "Date">>

\* BaseHTTPRequestHandler.send_header
send_header(buffer, header) == Append(buffer, header)

\* TapeServerHandler.end_headers: the CORS header, then the buffer is flushed
end_headers(buffer, file) ==
    Append(file, [kind |-> "head",
                  lines |-> send_header(buffer, "Access-Control-Allow-Origin")])

\* BaseHTTPRequestHandler.send_error: a whole error response
send_error(buffer, file, code) ==
    LET head ==
            send_header(send_header(send_header(send_response(buffer, code),
                "Connection"), "Content-Type"), "Content-Length")
    IN  Append(end_headers(head, file), [kind |-> "body", lines |-> <<"error " \o code>>])

GatewayIdle ==
    /\ hpc = "idle" /\ request = NoRequest /\ model = "None"
    /\ prompt = "" /\ response = "none" /\ upstream = "none" /\ calls = 0
    /\ headers_buffer = <<>> /\ wfile = <<>> /\ served = 0

\* load_dotenv(): the environment either holds GEMINI_API_KEY or does not
GatewayInit == api_key \in BOOLEAN /\ GatewayIdle

\* A request arrives; __init__ configures the model and dispatches it.
Accept ==
    /\ hpc = "idle"
    /\ served < MaxRequests
    /\ request' \in Requests
    /\ model' = IF api_key THEN "GenerativeModel" ELSE "None"
    /\ hpc' = "do_POST"
    /\ prompt' = "" /\ response' = "none" /\ upstream' = "none" /\ calls' = 0
    /\ headers_buffer' = <<>> /\ wfile' = <<>>
    /\ UNCHANGED <<api_key, served>>

do_POST ==
    /\ hpc = "do_POST"
    /\ IF request.path = "/api/generate"
       THEN hpc' = "read" /\ UNCHANGED wfile
       ELSE hpc' = "done" /\ wfile' = send_error(headers_buffer, wfile, "404")
    /\ UNCHANGED <<api_key, request, model, prompt, response, upstream, calls,
                   headers_buffer, served>>

\* lines 48-52: int(Content-Length), read, json.loads, request_data.get
ReadBody ==
    /\ hpc = "read"
    /\ IF \/ request.content_length = "missing"
          \/ request.body \in {"not_json", "array"}
       THEN hpc' = "except" /\ UNCHANGED prompt
       ELSE /\ prompt' = IF request.body = "prompt" THEN "a cat" ELSE ""
            /\ hpc' = "check_prompt"
    /\ UNCHANGED <<api_key, request, model, response, upstream, calls,
                   headers_buffer, wfile, served>>

\* if not prompt: send_error(400) with the return left out
CheckPromptNoReturn ==
    /\ hpc = "check_prompt"
    /\ hpc' = "check_model"
    /\ wfile' = IF prompt = "" THEN send_error(headers_buffer, wfile, "400") ELSE wfile
    /\ UNCHANGED <<api_key, request, model, prompt, response, upstream, calls,
                   headers_buffer, served>>

\* if not prompt: send_error(400); return
CheckPrompt ==
    /\ hpc = "check_prompt"
    /\ IF prompt = ""
       THEN hpc' = "done" /\ wfile' = send_error(headers_buffer, wfile, "400")
       ELSE hpc' = "check_model" /\ UNCHANGED wfile
    /\ UNCHANGED <<api_key, request, model, prompt, response, upstream, calls,
                   headers_buffer, served>>

\* if not self.model: send_error(500); return
CheckModel ==
    /\ hpc = "check_model"
    /\ IF model = "None"
       THEN hpc' = "done" /\ wfile' = send_error(headers_buffer, wfile, "500")
       ELSE hpc' = "generate" /\ UNCHANGED wfile
    /\ UNCHANGED <<api_key, request, model, prompt, response, upstream, calls,
                   headers_buffer, served>>

\* response = self.model.generate_content(self.create_enhanced_prompt(prompt))
Generate ==
    /\ hpc = "generate"
    /\ calls' = calls + 1
    /\ upstream' \in Upstreams
    /\ IF upstream' = "raises"
       THEN hpc' = "except" /\ UNCHANGED response
       ELSE hpc' = "send_head" /\ response' = upstream'
    /\ UNCHANGED <<api_key, request, model, prompt, headers_buffer, wfile, served>>

\* send_response(200); send_header x 2; end_headers()
SendHead ==
    /\ hpc = "send_head"
    /\ wfile' = end_headers(
           send_header(send_header(send_response(headers_buffer, "200"),
               "Content-Type"), "Access-Control-Allow-Origin"), wfile)
    /\ hpc' = "send_body"
    /\ UNCHANGED <<api_key, request, model, prompt, response, upstream, calls,
                   headers_buffer, served>>

\* response_data = {..., 'code': response.text, ...}; wfile.write(json.dumps(...))
SendBody ==
    /\ hpc = "send_body"
    /\ IF response = "no_text"
       THEN hpc' = "except" /\ UNCHANGED wfile
       ELSE /\ wfile' = Append(wfile, [kind |-> "body", lines |-> <<"success">>])
            /\ hpc' = "done"
    /\ UNCHANGED <<api_key, request, model, prompt, response, upstream, calls,
                   headers_buffer, served>>

\* except Exception as e: print(...); send_error(500, ...)
Except ==
    /\ hpc = "except"
    /\ wfile' = send_error(headers_buffer, wfile, "500")
    /\ hpc' = "done"
    /\ UNCHANGED <<api_key, request, model, prompt, response, upstream, calls,
                   headers_buffer, served>>

\* The handler returns and the server waits for the next request.
Finish ==
    /\ hpc = "done"
    /\ hpc' = "idle"
    /\ served' = served + 1
    /\ UNCHANGED <<api_key, request, model, prompt, response, upstream, calls,
                   headers_buffer, wfile>>

\* the status lines sent for the request, in order
RECURSIVE StatusLines(_)
StatusLines(file) ==
    IF file = <<>> THEN <<>>
    ELSE (IF Head(file).kind = "head" THEN <<Head(file).lines[1]>> ELSE <<>>)
         \o StatusLines(Tail(file))

-----------------------------------------------------------------------------
(* Specifications. *)

Init == CorpusIdle /\ SynthIdle /\ ValidateIdle /\ GatewayIdle /\ api_key = FALSE

Next ==
    \/ Start /\ UNCHANGED <<synthVars, validateVars, gatewayVars>>
    \/ BasicShape /\ UNCHANGED <<synthVars, validateVars, gatewayVars>>
    \/ ComplexObject /\ UNCHANGED <<synthVars, validateVars, gatewayVars>>
    \/ SaveTrainingData /\ UNCHANGED <<synthVars, validateVars, gatewayVars>>
    \/ ValidateExample /\ UNCHANGED <<synthVars, validateVars, gatewayVars>>
    \/ FineTune /\ UNCHANGED <<synthVars, validateVars, gatewayVars>>
    \/ WriteDataset /\ UNCHANGED <<synthVars, validateVars, gatewayVars>>
    \/ RunAgain /\ UNCHANGED <<synthVars, validateVars, gatewayVars>>

\* python train_3d_ai.py
Spec == Init /\ [][Next]_vars

SynthNext ==
    \/ CallTemplate /\ UNCHANGED <<corpusVars, validateVars, gatewayVars>>
    \/ CallAdvanced /\ UNCHANGED <<corpusVars, validateVars, gatewayVars>>

\* the synthesizer on any arguments
InitSynth ==
    CorpusIdle /\ SynthInit /\ ValidateIdle /\ GatewayIdle /\ api_key = FALSE

SpecSynth == InitSynth /\ [][SynthNext]_vars

ValidateNext == Validate /\ UNCHANGED <<corpusVars, synthVars, gatewayVars>>

\* the validator on any fragment
InitValidate ==
    CorpusIdle /\ SynthIdle /\ ValidateInit /\ GatewayIdle /\ api_key = FALSE

SpecValidate == InitValidate /\ [][ValidateNext]_vars

GatewayNext ==
    \/ Accept /\ UNCHANGED <<corpusVars, synthVars, validateVars>>
    \/ do_POST /\ UNCHANGED <<corpusVars, synthVars, validateVars>>
    \/ ReadBody /\ UNCHANGED <<corpusVars, synthVars, validateVars>>
    \/ CheckPrompt /\ UNCHANGED <<corpusVars, synthVars, validateVars>>
    \/ CheckModel /\ UNCHANGED <<corpusVars, synthVars, validateVars>>
    \/ Generate /\ UNCHANGED <<corpusVars, synthVars, validateVars>>
    \/ SendHead /\ UNCHANGED <<corpusVars, synthVars, validateVars>>
    \/ SendBody /\ UNCHANGED <<corpusVars, synthVars, validateVars>>
    \/ Except /\ UNCHANGED <<corpusVars, synthVars, validateVars>>
    \/ Finish /\ UNCHANGED <<corpusVars, synthVars, validateVars>>

InitGateway == CorpusIdle /\ SynthIdle /\ ValidateIdle /\ GatewayInit

\* python server.py
SpecGateway == InitGateway /\ [][GatewayNext]_vars

-----------------------------------------------------------------------------
(* Properties of the corpus script (Spec). *)

\* generate_training_examples has returned
Saved == pc \in {"validate", "fine_tune", "write", "done"}
\* the examples generated so far; once returned, the corpus
Corpus == IF Saved THEN training_data ELSE examples
BasicCount == Len(geometries_keys) * Len(colors_keys)

\* C1: every example generate_training_examples returns, each of the 11 x 10
\* basic shapes and each of the 10 curated advanced tuples, passes
\* validate_generated_code: each one as it is appended, and all of the returned
\* sequence; the ten that main() checks all count as valid.
C1_EveryExampleValidates ==
    /\ examples # <<>> => validate_generated_code(examples[Len(examples)].code)
    /\ pc = "save" =>
           \A k \in 1..Len(examples) : validate_generated_code(examples[k].code)
    /\ pc \in {"fine_tune", "write", "done"} => valid_count = 10

C1_Witness ==
    /\ pc = "save"
    /\ Len(examples) = 120
    /\ examples[1].category = "basic_shapes"
    /\ examples[120].category = "advanced_objects"
    /\ validate_generated_code(examples[1].code)
    /\ validate_generated_code(examples[120].code)

\* C2: the corpus is the 11 x 10 = 110 basic_shapes examples in shape-major,
\* color-minor table order, each with the prompt 'Create a {color} {shape}',
\* then one advanced_objects example for each curated tuple in listed order; no
\* basic_shapes example comes after an advanced_objects one, and a second run
\* returns the same sequence.
C2_CorpusShapeAndOrder ==
    /\ Len(geometries_keys) = 11 /\ Len(colors_keys) = 10 /\ Len(complex_objects) = 10
    /\ \A k \in 1..Len(Corpus) :
          Corpus[k].category =
              IF k <= BasicCount THEN "basic_shapes" ELSE "advanced_objects"
    /\ \A s \in 1..Len(geometries_keys) : \A c \in 1..Len(colors_keys) :
          LET k == (s - 1) * Len(colors_keys) + c IN
          k <= Len(Corpus) =>
              Corpus[k].prompt =
                  "Create a " \o colors_keys[c] \o " " \o geometries_keys[s]
    /\ \A o \in 1..Len(complex_objects) :
          BasicCount + o <= Len(Corpus) =>
              Corpus[BasicCount + o].prompt = complex_objects[o][1]
    /\ (pc = "save" \/ Saved) => Len(Corpus) = BasicCount + Len(complex_objects)
    /\ (Saved /\ run > 1) => training_data = previous

C2_Witness ==
    /\ pc = "validate" /\ run = 2
    /\ Len(training_data) = 120
    /\ training_data[12].prompt = "Create a green cube"
    /\ training_data[111].prompt = "spinning golden sphere"
    /\ training_data = previous

\* C6: the fine-tune dataset has one record for each Example, in corpus order;
\* record i's assistant content is Example i's code unchanged and its user
\* content is 'Create Three.js code for: ' followed by Example i's prompt.
C6_FineTuneMirrorsCorpus ==
    /\ Len(fine_tune_data) <= Len(training_data)
    /\ \A k \in 1..Len(fine_tune_data) :
          LET messages == fine_tune_data[k].messages IN
          /\ Len(messages) = 3
          /\ messages[2].role = "user"
          /\ messages[2].content =
                 "Create Three.js code for: " \o training_data[k].prompt
          /\ messages[3].role = "assistant"
          /\ messages[3].content = training_data[k].code
    /\ pc \in {"write", "done"} => Len(fine_tune_data) = Len(training_data)
    /\ pc = "done" => dataset_file = Len(training_data)

C6_Witness ==
    /\ pc = "done"
    /\ Len(fine_tune_data) = 120
    /\ fine_tune_data[1].messages[2].content =
           "Create Three.js code for: Create a red sphere"
    /\ fine_tune_data[120].messages[3].content = training_data[120].code
    /\ Len(training_data[120].code) > 0

-----------------------------------------------------------------------------
(* Properties of the validator (SpecValidate). *)

\* C3: validate_generated_code returns true exactly when all six patterns match
\* the fragment; a fragment that lacks any one of the six elements is rejected,
\* whichever it is and whatever form the other five take.
C3_ValidIffAllSixElements ==
    vpc = "returned" =>
        /\ vresult = (\A k \in 1..Len(required_patterns) :
                          re_search(required_patterns[k], vcode))
        /\ vresult = (\A k \in 1..Len(element) : vparts[k] \in Presents)
        /\ Len(required_patterns) = 6 /\ Len(element) = 6

C3_Witness ==
    /\ vpc = "returned"
    /\ vparts[6] = "absent"
    /\ \A k \in 1..5 : vparts[k] \in Presents
    /\ vparts[1] = "tight"
    /\ vresult = FALSE

-----------------------------------------------------------------------------
(* Properties of the gateway (SpecGateway). *)

Answered == hpc = "done" /\ request.path = "/api/generate"
SuccessBody == [kind |-> "body", lines |-> <<"success">>]
WroteSuccessBody == \E k \in 1..Len(wfile) : wfile[k] = SuccessBody

\* C4: when the collaborator call or the reading of its result fails, the
\* client receives exactly one response, a 500: no 200 status line, at most one
\* call of the collaborator, no part of a success body.
C4_UpstreamFailureIsOne500 ==
    (Answered /\ upstream \in {"raises", "no_text"}) =>
        /\ StatusLines(wfile) = <<"HTTP/1.0 500">>
        /\ calls <= 1
        /\ ~WroteSuccessBody

\* C5: a missing or empty prompt is answered 400, a non-empty prompt with no
\* configured model 500; the collaborator is called in neither case, and the
\* prompt check comes first (an empty prompt with no model is a 400).
C5_PromptThenModel ==
    (Answered /\ request.content_length = "ok") =>
        /\ request.body \in {"no_prompt", "empty_prompt"} =>
               StatusLines(wfile) = <<"HTTP/1.0 400">> /\ calls = 0
        /\ (request.body = "prompt" /\ ~api_key) =>
               StatusLines(wfile) = <<"HTTP/1.0 500">> /\ calls = 0

C5_Witness ==
    /\ Answered /\ request.content_length = "ok"
    /\ request.body = "empty_prompt"
    /\ ~api_key
    /\ StatusLines(wfile) = <<"HTTP/1.0 400">>
    /\ calls = 0

-----------------------------------------------------------------------------
(* Properties of the synthesizer (SpecSynth). *)

TemplateCalled == template_code # NotCalled
AdvancedCalled == advanced_code # NotCalled

\* new THREE.MeshStandardMaterial(
StandardMaterial == <<"new", " ", "THREE", ".", "Mesh", "StandardMaterial", "(">>

\* object.rotation.x += 0.01; object.rotation.y += 0.01;
DualAxisRotation ==
    <<"object", ".", "rotation", ".", "x", " ", "+", "=", " ", "0.01", ";", " ",
      "object", ".", "rotation", ".", "y", " ", "+", "=", " ", "0.01", ";">>

\* the tags whose recipe is the one found in the fragment
TagsOf(code, color) ==
    {t \in EffectTags : /\ effect_material(color, t) = MaterialOf(code)
                        /\ effect_animation(t) = AnimationOf(code)}

\* C7: for an effect tag outside the nine, generate_advanced_code does not fail
\* and uses the default strategy: a MeshStandardMaterial with metalness 0.3 and
\* roughness 0.4, and the animation rotation.x += 0.01; rotation.y += 0.01.  A
\* recognized tag selects exactly one strategy, its own.
C7_UnknownEffectIsDefault ==
    /\ ~AdvancedCalled => ENABLED CallAdvanced
    /\ (AdvancedCalled /\ args.effect \notin EffectTags) =>
          LET material == MaterialOf(advanced_code) IN
          /\ SubSeq(material, 1, Len(StandardMaterial)) = StandardMaterial
          /\ Property(material, "color") = args.color
          /\ Property(material, "metalness") = "0.3"
          /\ Property(material, "roughness") = "0.4"
          /\ AnimationOf(advanced_code) = DualAxisRotation
          /\ TagsOf(advanced_code, args.color) = {}
    /\ (AdvancedCalled /\ args.effect \in EffectTags) =>
          TagsOf(advanced_code, args.color) = {args.effect}
    /\ Cardinality(EffectTags) = 9

C7_Witness ==
    /\ AdvancedCalled
    /\ args.effect = "wireframe"
    /\ Property(MaterialOf(advanced_code), "metalness") = "0.3"
    /\ AnimationOf(advanced_code) = DualAxisRotation

\* C8 as claimed: for a shape key outside the eleven, both paths build the
\* fragment with '1, 1, 1'.
C8_UnknownShapeIsUnitDefault ==
    /\ (TemplateCalled /\ args.shape \notin ShapeKeys
            /\ args.geometry \notin GeometryKinds) =>
           ParamOf(template_code) = "1, 1, 1"
    /\ (AdvancedCalled /\ args.shape \notin ShapeKeys) =>
           ParamOf(advanced_code) = "1, 1, 1"

\* C8, amended: for a shape key outside the eleven neither path fails.
\* generate_code_template builds the fragment with '1, 1, 1' exactly when the
\* geometry kind it is given is none of the eleven mapped kinds.  On the advanced
\* path the shape-to-geometry lookup falls back to BoxGeometry, and the fragment
\* is a BoxGeometry built with '2, 2, 2', not '1, 1, 1'.
C8_UnknownShapeFallbacks ==
    /\ ~TemplateCalled => ENABLED CallTemplate
    /\ ~AdvancedCalled => ENABLED CallAdvanced
    /\ TemplateCalled =>
           /\ GeometryOf(template_code) = args.geometry
           /\ (ParamOf(template_code) = "1, 1, 1") = (args.geometry \notin GeometryKinds)
    /\ (AdvancedCalled /\ args.shape \notin ShapeKeys) =>
           /\ GeometryOf(advanced_code) = "BoxGeometry"
           /\ ParamOf(advanced_code) = "2, 2, 2"

C8_Witness ==
    /\ TemplateCalled /\ AdvancedCalled
    /\ args.shape = "pyramid" /\ args.geometry = "CapsuleGeometry"
    /\ ParamOf(template_code) = "1, 1, 1"
    /\ ParamOf(advanced_code) = "2, 2, 2"

\* the distinguishing property each effect is documented to carry
Distinguished(material, effect) ==
    /\ effect \in {"glass", "crystal"} =>
           /\ HasProperty(material, "transmission")
           /\ HasProperty(material, "transparent")
           /\ Property(material, "transparent") = "true"
    /\ effect \in {"emissive", "plasma"} =>
           /\ HasProperty(material, "emissive")
           /\ HasProperty(material, "emissiveIntensity")
    /\ effect = "metallic" =>
           /\ HasProperty(material, "metalness")
           /\ Tenths[Property(material, "metalness")] >= 9

\* C9 as claimed: for each of the nine tags and every color the material
\* expression carries the effect's distinguishing property, and differs from the
\* material expression of the default strategy.
C9_MaterialDistinguishesEffect ==
    (AdvancedCalled /\ args.effect \in EffectTags) =>
        /\ Distinguished(MaterialOf(advanced_code), args.effect)
        /\ MaterialOf(advanced_code) # default_material(args.color)

\* C9, amended: for each of the nine tags and every color the material
\* expression carries the effect's distinguishing property; it differs from the
\* default strategy's material expression for every tag but rainbow, whose
\* material is the default one (metalness 0.3, roughness 0.4) and whose
\* animation alone sets it apart.
C9_MaterialDistinguishesEffectButRainbow ==
    (AdvancedCalled /\ args.effect \in EffectTags) =>
        LET material == MaterialOf(advanced_code) IN
        /\ Distinguished(material, args.effect)
        /\ Property(material, "color") = args.color
        /\ args.effect # "rainbow" => material # default_material(args.color)
        /\ args.effect = "rainbow" =>
               /\ material = default_material(args.color)
               /\ AnimationOf(advanced_code) # DualAxisRotation

C9_Witness ==
    /\ AdvancedCalled
    /\ args.effect = "glass" /\ args.color = "0xffd700"
    /\ Property(MaterialOf(advanced_code), "transmission") = "0.9"
    /\ Property(MaterialOf(advanced_code), "transparent") = "true"

\* C10: for each of the eleven ShapeKeys the advanced path uses the parameter
\* string the basic path uses for the shape's geometry kind, never '1, 1, 1'.
C10_AdvancedParamsMatchBasic ==
    (TemplateCalled /\ AdvancedCalled /\ args.shape \in ShapeKeys
         /\ args.geometry = geometries[args.shape]) =>
        /\ GeometryOf(advanced_code) = GeometryOf(template_code)
        /\ ParamOf(advanced_code) = ParamOf(template_code)
        /\ ParamOf(advanced_code) # "1, 1, 1"

====
